---- MODULE Spec2Model ----
(***************************************************************************)
(* Invasion of the Cow Snatchers (src/iotcs/src/lib.rs): the Farm built by *)
(* Farm::from_str, the puzzle state IotCS, the move IotCS::move_ufo and    *)
(* the goal test IotCS::is_goal.                                           *)
(***************************************************************************)
EXTENDS Integers, Sequences, FiniteSets, TLC

(***************************************************************************)
(* Option<T>                                                               *)
(***************************************************************************)
None == [some |-> FALSE]

Some(v) == [some |-> TRUE, val |-> v]

(***************************************************************************)
(* enum Object and its category predicates                                 *)
(***************************************************************************)
Object ==
  {"UFO", "AzureCow", "YellowCow", "PurpleCow", "OrangeCow", "RedBull",
   "Barn", "Crop", "Hay", "Fence", "Silo", "Wall1", "Wall2", "Corner", "Empty"}

is_cow(obj) == obj \in {"AzureCow", "YellowCow", "PurpleCow", "OrangeCow"}

is_bull(obj) == obj = "RedBull"

is_ufo(obj) == obj = "UFO"

\* is_wall that knows the four barriers only
is_wall_BarriersOnly(obj) == obj \in {"Barn", "Hay", "Crop", "Fence"}

is_wall(obj) == obj \in {"Barn", "Hay", "Crop", "Fence", "Wall1", "Wall2"}

(***************************************************************************)
(* enum Direction, in the order of Direction::values                       *)
(***************************************************************************)
DirectionValues == <<"North", "South", "West", "East">>

Direction == {DirectionValues[i] : i \in 1..Len(DirectionValues)}

(***************************************************************************)
(* struct Pos: x indexes the outer array of the layout, y the inner one    *)
(***************************************************************************)
MaxCoord == 6

Coord == 0..MaxCoord

\* Pos::new panics on a coordinate above 6; the field bad records that the
\* panic was reached, so that a caller reaching it is visible.
PosNew(x, y) == [x |-> x, y |-> y, bad |-> (x > MaxCoord \/ y > MaxCoord)]

Pos == {PosNew(x, y) : x \in Coord, y \in Coord}

xy(pos) == <<pos.x, pos.y>>

\* step without the test of the last row for South
step_NoSouthGuard(pos, dir) ==
  LET x == xy(pos)[1]
      y == xy(pos)[2]
  IN  CASE dir = "North" -> IF x = 0 THEN None ELSE Some(PosNew(x - 1, y))
        [] dir = "South" -> Some(PosNew(x + 1, y))
        [] dir = "West"  -> IF y = 0 THEN None ELSE Some(PosNew(x, y - 1))
        [] dir = "East"  -> IF y = MaxCoord THEN None ELSE Some(PosNew(x, y + 1))

step(pos, dir) ==
  LET x == xy(pos)[1]
      y == xy(pos)[2]
  IN  CASE dir = "North" -> IF x = 0 THEN None ELSE Some(PosNew(x - 1, y))
        [] dir = "South" -> IF x = MaxCoord THEN None ELSE Some(PosNew(x + 1, y))
        [] dir = "West"  -> IF y = 0 THEN None ELSE Some(PosNew(x, y - 1))
        [] dir = "East"  -> IF y = MaxCoord THEN None ELSE Some(PosNew(x, y + 1))

\* Pos::values: (0..7).flat_map(|y| (0..7).map(move |x| Pos::new(x, y)))
PosValues ==
  [k \in 1..((MaxCoord + 1) * (MaxCoord + 1)) |->
     PosNew((k - 1) % (MaxCoord + 1), (k - 1) \div (MaxCoord + 1))]

(***************************************************************************)
(* struct Farm                                                             *)
(***************************************************************************)
FarmNew ==
  [layout    |-> [x \in Coord |-> [y \in Coord |-> None]],
   ufo_pos   |-> PosNew(0, 0),
   cow_count |-> 0]

get(farm, pos) == farm.layout[xy(pos)[1]][xy(pos)[2]]

get_cow_count(farm) == farm.cow_count

current_ufo_pos(farm) == farm.ufo_pos

\* impl Display for Object
ObjectGlyph(obj) ==
  CASE obj = "UFO" -> "U"
    [] obj = "AzureCow" -> "A"
    [] obj = "YellowCow" -> "Y"
    [] obj = "PurpleCow" -> "P"
    [] obj = "OrangeCow" -> "O"
    [] obj = "RedBull" -> "R"
    [] obj = "Barn" -> "B"
    [] obj = "Crop" -> "C"
    [] obj = "Hay" -> "H"
    [] obj = "Fence" -> "F"
    [] obj = "Silo" -> "S"
    [] obj = "Wall1" -> "|"
    [] obj = "Wall2" -> "-"
    [] obj = "Corner" -> "+"
    [] obj = "Empty" -> " "

\* impl Display for Farm: the characters written, in order
RECURSIVE FarmFmtFrom(_, _)
FarmFmtFrom(farm, k) ==
  IF k > Len(PosValues) THEN <<>>
  ELSE LET pos   == PosValues[k]
           cell  == get(farm, pos)
           glyph == IF cell.some THEN ObjectGlyph(cell.val) ELSE " "
           eol   == IF xy(pos)[1] = 6 THEN <<"\n">> ELSE <<>>
       IN  <<glyph>> \o eol \o FarmFmtFrom(farm, k + 1)

FarmFmt(farm) == FarmFmtFrom(farm, 1)

(***************************************************************************)
(* impl FromStr for Farm.  The text is a sequence of characters; the       *)
(* parser state is the farm under construction, the seven first-occurrence *)
(* flags, wall_count, the number of characters consumed (c) and whether    *)
(* Err(FarmParseError) was returned (err).                                 *)
(***************************************************************************)
ParseStart ==
  [farm       |-> FarmNew,
   ufo        |-> FALSE,
   azure_cow  |-> FALSE,
   yellow_cow |-> FALSE,
   purple_cow |-> FALSE,
   orange_cow |-> FALSE,
   red_bull   |-> FALSE,
   silo       |-> FALSE,
   wall_count |-> 0,
   c          |-> 0,
   err        |-> FALSE]

SetCell(farm, pos, obj) ==
  [farm EXCEPT !.layout[xy(pos)[1]][xy(pos)[2]] = Some(obj)]

\* put_object_with_flag that never returns Err for a second occurrence
put_object_with_flag_NoCheck(st, pos, flag, obj) ==
  LET placed == [st EXCEPT !.farm = SetCell(st.farm, pos, obj)]
  IN  [placed EXCEPT
         ![flag] = TRUE,
         !.farm.ufo_pos = IF obj = "UFO" THEN pos ELSE @,
         !.farm.cow_count = IF is_cow(obj) THEN @ + 1 ELSE @]

\* put_object_with_flag that counts the bull as a cow
put_object_with_flag_CountsBull(st, pos, flag, obj) ==
  LET placed == [st EXCEPT !.farm = SetCell(st.farm, pos, obj)]
  IN  IF st[flag]
        THEN [placed EXCEPT !.err = TRUE]
        ELSE [placed EXCEPT
                ![flag] = TRUE,
                !.farm.ufo_pos = IF obj = "UFO" THEN pos ELSE @,
                !.farm.cow_count = IF is_cow(obj) \/ is_bull(obj) THEN @ + 1 ELSE @]

put_object_with_flag(st, pos, flag, obj) ==
  LET placed == [st EXCEPT !.farm = SetCell(st.farm, pos, obj)]
  IN  IF st[flag]
        THEN [placed EXCEPT !.err = TRUE]
        ELSE [placed EXCEPT
                ![flag] = TRUE,
                !.farm.ufo_pos = IF obj = "UFO" THEN pos ELSE @,
                !.farm.cow_count = IF is_cow(obj) THEN @ + 1 ELSE @]

put_object(st, pos, obj) ==
  [st EXCEPT
     !.farm = [SetCell(st.farm, pos, obj) EXCEPT
                 !.ufo_pos = IF obj = "UFO" THEN pos ELSE @],
     !.wall_count = IF is_wall(obj) THEN @ + 1 ELSE @]

\* c.next(): the next character of the text, if any
NextChar(s, st) == IF st.c < Len(s) THEN Some(s[st.c + 1]) ELSE None

\* the match on the character read for the cell at pos
ParseCell(s, st, pos) ==
  LET ch   == NextChar(s, st)
      read == [st EXCEPT !.c = @ + 1]
  IN  IF ~ch.some THEN [st EXCEPT !.err = TRUE]
      ELSE CASE ch.val = "U" -> put_object_with_flag(read, pos, "ufo", "UFO")
             [] ch.val = "A" -> put_object_with_flag(read, pos, "azure_cow", "AzureCow")
             [] ch.val = "Y" -> put_object_with_flag(read, pos, "yellow_cow", "YellowCow")
             [] ch.val = "P" -> put_object_with_flag(read, pos, "purple_cow", "PurpleCow")
             [] ch.val = "O" -> put_object_with_flag(read, pos, "orange_cow", "OrangeCow")
             [] ch.val = "R" -> put_object_with_flag(read, pos, "red_bull", "RedBull")
             [] ch.val = "B" -> put_object(read, pos, "Barn")
             [] ch.val = "C" -> put_object(read, pos, "Crop")
             [] ch.val = "H" -> put_object(read, pos, "Hay")
             [] ch.val = "F" -> put_object(read, pos, "Fence")
             [] ch.val = "S" -> put_object_with_flag(read, pos, "silo", "Silo")
             [] ch.val = "|" -> put_object(read, pos, "Wall1")
             [] ch.val = "-" -> put_object(read, pos, "Wall2")
             [] ch.val = "+" -> put_object(read, pos, "Corner")
             [] ch.val = " " -> put_object(read, pos, "Empty")
             [] OTHER -> [read EXCEPT !.err = TRUE]

\* the match on the character that ends row x
ParseRowEnd(s, st) ==
  LET ch == NextChar(s, st)
  IN  IF ch.some /\ ch.val = "\n"
        THEN [st EXCEPT !.c = @ + 1]
        ELSE [st EXCEPT !.err = TRUE]

\* the loops "for x in 0..7 { for y in 0..7 { .. } .. }", from cell k on,
\* where cell k is (x, y) = (k \div 7, k % 7)
RECURSIVE ParseCells(_, _, _)
ParseCells(s, st, k) ==
  IF st.err \/ k = (MaxCoord + 1) * (MaxCoord + 1) THEN st
  ELSE LET x    == k \div (MaxCoord + 1)
           y    == k % (MaxCoord + 1)
           cell == ParseCell(s, st, PosNew(x, y))
           row  == IF ~cell.err /\ y = MaxCoord THEN ParseRowEnd(s, cell) ELSE cell
       IN  ParseCells(s, row, k + 1)

WallTotal == 24

\* Ok(farm) is [ok |-> TRUE, farm |-> farm]; Err(FarmParseError) has ok FALSE
from_str(s) ==
  LET st == ParseCells(s, ParseStart, 0)
  IN  IF st.err THEN [ok |-> FALSE]
      ELSE IF NextChar(s, st).some THEN [ok |-> FALSE]
      ELSE IF st.red_bull = FALSE \/ st.ufo = FALSE THEN [ok |-> FALSE]
      ELSE IF st.wall_count # WallTotal THEN [ok |-> FALSE]
      ELSE [ok |-> TRUE, farm |-> st.farm]

(***************************************************************************)
(* struct IotCS: the farm is a shared reference (the variable farm); the   *)
(* record holds the fields a clone copies.                                 *)
(***************************************************************************)
IotCSNew(farm) ==
  [ufo_pos         |-> current_ufo_pos(farm),
   cow_collection  |-> <<>>,
   red_bull_picked |-> FALSE]

\* VecDeque::contains
contains(q, obj) == \E i \in 1..Len(q) : q[i] = obj

\* push_front in the place of push_back
push_back_Front(q, obj) == <<obj>> \o q

\* VecDeque::push_back
push_back(q, obj) == Append(q, obj)

\* WallStops with ">=" for ">": a barrier stops the load it should tolerate
WallStops_AtThreshold(obj1, len) ==
  CASE obj1 = "Barn"  -> len >= 0
    [] obj1 = "Crop"  -> len >= 1
    [] obj1 = "Fence" -> len >= 2
    [] obj1 = "Hay"   -> len >= 3
    [] OTHER -> FALSE

\* WallStops without the Hay arm: hay never stops the craft
WallStops_HayNever(obj1, len) ==
  CASE obj1 = "Barn"  -> len > 0
    [] obj1 = "Crop"  -> len > 1
    [] obj1 = "Fence" -> len > 2
    [] OTHER -> FALSE

\* WallStops with an arm for the silo: the craft cannot pass over it
WallStops_SiloStops(obj1, len) ==
  CASE obj1 = "Barn"  -> len > 0
    [] obj1 = "Crop"  -> len > 1
    [] obj1 = "Fence" -> len > 2
    [] obj1 = "Hay"   -> len > 3
    [] obj1 = "Silo"  -> TRUE
    [] OTHER -> FALSE

\* "match obj1": TRUE when the arm returns None
WallStops(obj1, len) ==
  CASE obj1 = "Barn"  -> len > 0
    [] obj1 = "Crop"  -> len > 1
    [] obj1 = "Fence" -> len > 2
    [] obj1 = "Hay"   -> len > 3
    [] OTHER -> FALSE

\* Land without the comparison of the cow count: the bull is taken at once
Land_PrizeAnytime(farm, self, obj2) ==
  CASE obj2 = "Silo" -> [ok |-> FALSE, self |-> self]
    [] obj2 = "RedBull" ->
         IF ~contains(self.cow_collection, "RedBull")
           THEN [ok   |-> TRUE,
                 self |-> [self EXCEPT
                             !.red_bull_picked = TRUE,
                             !.cow_collection = push_back(@, "RedBull")]]
           ELSE [ok |-> TRUE, self |-> self]
    [] obj2 \in {"OrangeCow", "PurpleCow", "AzureCow", "YellowCow"} ->
         IF ~contains(self.cow_collection, obj2)
           THEN [ok   |-> TRUE,
                 self |-> [self EXCEPT !.cow_collection = push_back(@, obj2)]]
           ELSE [ok |-> TRUE, self |-> self]
    [] OTHER -> [ok |-> TRUE, self |-> self]

\* Land without the Silo arm: the silo is a cell like any other
Land_SiloOk(farm, self, obj2) ==
  CASE obj2 = "RedBull" ->
         IF ~self.red_bull_picked
            /\ get_cow_count(farm) # Len(self.cow_collection)
           THEN [ok |-> FALSE, self |-> self]
           ELSE IF ~contains(self.cow_collection, "RedBull")
                  THEN [ok   |-> TRUE,
                        self |-> [self EXCEPT
                                    !.red_bull_picked = TRUE,
                                    !.cow_collection = push_back(@, "RedBull")]]
                  ELSE [ok |-> TRUE, self |-> self]
    [] obj2 \in {"OrangeCow", "PurpleCow", "AzureCow", "YellowCow"} ->
         IF ~contains(self.cow_collection, obj2)
           THEN [ok   |-> TRUE,
                 self |-> [self EXCEPT !.cow_collection = push_back(@, obj2)]]
           ELSE [ok |-> TRUE, self |-> self]
    [] OTHER -> [ok |-> TRUE, self |-> self]

\* Land without the test that the bull is absent: each landing appends it
Land_BullTwice(farm, self, obj2) ==
  CASE obj2 = "Silo" -> [ok |-> FALSE, self |-> self]
    [] obj2 = "RedBull" ->
         IF ~self.red_bull_picked
            /\ get_cow_count(farm) # Len(self.cow_collection)
           THEN [ok |-> FALSE, self |-> self]
           ELSE [ok   |-> TRUE,
                 self |-> [self EXCEPT
                             !.red_bull_picked = TRUE,
                             !.cow_collection = push_back(@, "RedBull")]]
    [] obj2 \in {"OrangeCow", "PurpleCow", "AzureCow", "YellowCow"} ->
         IF ~contains(self.cow_collection, obj2)
           THEN [ok   |-> TRUE,
                 self |-> [self EXCEPT !.cow_collection = push_back(@, obj2)]]
           ELSE [ok |-> TRUE, self |-> self]
    [] OTHER -> [ok |-> TRUE, self |-> self]

\* Land without the test that the cow is absent: each landing appends it
Land_CowTwice(farm, self, obj2) ==
  CASE obj2 = "Silo" -> [ok |-> FALSE, self |-> self]
    [] obj2 = "RedBull" ->
         IF ~self.red_bull_picked
            /\ get_cow_count(farm) # Len(self.cow_collection)
           THEN [ok |-> FALSE, self |-> self]
           ELSE IF ~contains(self.cow_collection, "RedBull")
                  THEN [ok   |-> TRUE,
                        self |-> [self EXCEPT
                                    !.red_bull_picked = TRUE,
                                    !.cow_collection = push_back(@, "RedBull")]]
                  ELSE [ok |-> TRUE, self |-> self]
    [] obj2 \in {"OrangeCow", "PurpleCow", "AzureCow", "YellowCow"} ->
         [ok   |-> TRUE,
          self |-> [self EXCEPT !.cow_collection = push_back(@, obj2)]]
    [] OTHER -> [ok |-> TRUE, self |-> self]

\* Land that appends the bull without setting red_bull_picked
Land_NoFlag(farm, self, obj2) ==
  CASE obj2 = "Silo" -> [ok |-> FALSE, self |-> self]
    [] obj2 = "RedBull" ->
         IF ~self.red_bull_picked
            /\ get_cow_count(farm) # Len(self.cow_collection)
           THEN [ok |-> FALSE, self |-> self]
           ELSE IF ~contains(self.cow_collection, "RedBull")
                  THEN [ok   |-> TRUE,
                        self |-> [self EXCEPT
                                    !.cow_collection = push_back(@, "RedBull")]]
                  ELSE [ok |-> TRUE, self |-> self]
    [] obj2 \in {"OrangeCow", "PurpleCow", "AzureCow", "YellowCow"} ->
         IF ~contains(self.cow_collection, obj2)
           THEN [ok   |-> TRUE,
                 self |-> [self EXCEPT !.cow_collection = push_back(@, obj2)]]
           ELSE [ok |-> TRUE, self |-> self]
    [] OTHER -> [ok |-> TRUE, self |-> self]

\* "match obj2": ok is FALSE when the arm returns None; self is the state
\* the arm leaves behind
Land(farm, self, obj2) ==
  CASE obj2 = "Silo" -> [ok |-> FALSE, self |-> self]
    [] obj2 = "RedBull" ->
         IF ~self.red_bull_picked
            /\ get_cow_count(farm) # Len(self.cow_collection)
           THEN [ok |-> FALSE, self |-> self]
           ELSE IF ~contains(self.cow_collection, "RedBull")
                  THEN [ok   |-> TRUE,
                        self |-> [self EXCEPT
                                    !.red_bull_picked = TRUE,
                                    !.cow_collection = push_back(@, "RedBull")]]
                  ELSE [ok |-> TRUE, self |-> self]
    [] obj2 \in {"OrangeCow", "PurpleCow", "AzureCow", "YellowCow"} ->
         IF ~contains(self.cow_collection, obj2)
           THEN [ok   |-> TRUE,
                 self |-> [self EXCEPT !.cow_collection = push_back(@, obj2)]]
           ELSE [ok |-> TRUE, self |-> self]
    [] OTHER -> [ok |-> TRUE, self |-> self]

\* move_ufo that moves the craft onto the first cell before the checks
move_ufo_EarlyCommit(farm, self, pos, dir) ==
  LET pos1 == step(pos, dir)
  IN  IF ~pos1.some THEN [ret |-> None, self |-> self]
      ELSE
  LET obj1 == get(farm, pos1.val)
      over == [self EXCEPT !.ufo_pos = pos1.val]
  IN  IF ~obj1.some THEN [ret |-> None, self |-> over]
      ELSE IF WallStops(obj1.val, Len(self.cow_collection))
        THEN [ret |-> None, self |-> over]
      ELSE
  LET pos2 == step(pos1.val, dir)
  IN  IF ~pos2.some THEN [ret |-> None, self |-> [self EXCEPT !.ufo_pos = pos1.val]]
      ELSE
  LET obj2 == get(farm, pos2.val)
  IN  IF ~obj2.some THEN [ret |-> None, self |-> [self EXCEPT !.ufo_pos = pos1.val]]
      ELSE
  LET landed == Land(farm, self, obj2.val)
  IN  IF ~landed.ok
        THEN [ret |-> None, self |-> [landed.self EXCEPT !.ufo_pos = pos1.val]]
      ELSE [ret  |-> Some(pos2.val),
            self |-> [landed.self EXCEPT !.ufo_pos = pos2.val]]

\* move_ufo that rests the craft on the first cell
move_ufo_OneStep(farm, self, pos, dir) ==
  LET pos1 == step(pos, dir)
  IN  IF ~pos1.some THEN [ret |-> None, self |-> self]
      ELSE
  LET obj1 == get(farm, pos1.val)
  IN  IF ~obj1.some THEN [ret |-> None, self |-> self]
      ELSE IF WallStops(obj1.val, Len(self.cow_collection))
        THEN [ret |-> None, self |-> self]
      ELSE
  LET pos2 == step(pos1.val, dir)
  IN  IF ~pos2.some THEN [ret |-> None, self |-> self]
      ELSE
  LET obj2 == get(farm, pos2.val)
  IN  IF ~obj2.some THEN [ret |-> None, self |-> self]
      ELSE
  LET landed == Land(farm, self, obj2.val)
  IN  IF ~landed.ok THEN [ret |-> None, self |-> landed.self]
      ELSE [ret  |-> Some(pos1.val),
            self |-> [landed.self EXCEPT !.ufo_pos = pos1.val]]

\* the result is the pair of the value returned and the state left in self
move_ufo(farm, self, pos, dir) ==
  LET pos1 == step(pos, dir)
  IN  IF ~pos1.some THEN [ret |-> None, self |-> self]
      ELSE
  LET obj1 == get(farm, pos1.val)
  IN  IF ~obj1.some THEN [ret |-> None, self |-> self]
      ELSE IF WallStops(obj1.val, Len(self.cow_collection))
        THEN [ret |-> None, self |-> self]
      ELSE
  LET pos2 == step(pos1.val, dir)
  IN  IF ~pos2.some THEN [ret |-> None, self |-> self]
      ELSE
  LET obj2 == get(farm, pos2.val)
  IN  IF ~obj2.some THEN [ret |-> None, self |-> self]
      ELSE
  LET landed == Land(farm, self, obj2.val)
  IN  IF ~landed.ok THEN [ret |-> None, self |-> landed.self]
      ELSE [ret  |-> Some(pos2.val),
            self |-> [landed.self EXCEPT !.ufo_pos = pos2.val]]

\* is_goal that forgets the bull: the length compared is the cow count
is_goal_NoPlusOne(farm, self) ==
  IF get_cow_count(farm) # Len(self.cow_collection) THEN FALSE
  ELSE LET x == xy(self.ufo_pos)[1]
           y == xy(self.ufo_pos)[2]
       IN  IF x = 6 \/ x = 0 \/ y = 0 \/ y = 6 THEN TRUE ELSE FALSE

\* is_goal without the test of the last column
is_goal_NoEastEdge(farm, self) ==
  IF get_cow_count(farm) + 1 # Len(self.cow_collection) THEN FALSE
  ELSE LET x == xy(self.ufo_pos)[1]
           y == xy(self.ufo_pos)[2]
       IN  IF x = 6 \/ x = 0 \/ y = 0 THEN TRUE ELSE FALSE

is_goal(farm, self) ==
  IF get_cow_count(farm) + 1 # Len(self.cow_collection) THEN FALSE
  ELSE LET x == xy(self.ufo_pos)[1]
           y == xy(self.ufo_pos)[2]
       IN  IF x = 6 \/ x = 0 \/ y = 0 \/ y = 6 THEN TRUE ELSE FALSE

\* next with one clone made before the loop and moved in every iteration
next_SharedClone(farm, self) ==
  LET loop[i \in 0..Len(DirectionValues)] ==
        IF i = 0 THEN [out |-> <<>>, nb |-> self]
        ELSE LET d     == DirectionValues[i]
                 moved == move_ufo(farm, loop[i - 1].nb, loop[i - 1].nb.ufo_pos, d)
             IN  IF moved.ret.some
                   THEN [out |-> Append(loop[i - 1].out, <<d, moved.self>>),
                         nb  |-> moved.self]
                   ELSE [out |-> loop[i - 1].out, nb |-> moved.self]
  IN  loop[Len(DirectionValues)].out

\* IotCS::next: the pairs (dir, nb) of the moves that succeed, in the order
\* of Direction::values
next(farm, self) ==
  LET pairs[i \in 0..Len(DirectionValues)] ==
        IF i = 0 THEN <<>>
        ELSE LET d     == DirectionValues[i]
                 clone == self
                 moved == move_ufo(farm, clone, self.ufo_pos, d)
             IN  IF moved.ret.some
                   THEN Append(pairs[i - 1], <<d, moved.self>>)
                   ELSE pairs[i - 1]
  IN  pairs[Len(DirectionValues)]

(***************************************************************************)
(* The farms of the model: texts in the format Farm::from_str reads, one   *)
(* character per element, each row ended by a newline.                     *)
(***************************************************************************)
\* the four cows, the bull and the silo on the cells of the game's 4x4 grid
Farm1Text ==
  <<
    "U", "|", "A", "|", "Y", "B", " ", "\n",
    "-", "+", "-", "+", "H", "+", "-", "\n",
    " ", "C", "P", "F", "O", "H", " ", "\n",
    "-", "+", "-", "+", "-", "+", "-", "\n",
    "R", "|", "S", "|", " ", "|", " ", "\n",
    "-", "+", "-", "+", "-", "+", "-", "\n",
    " ", "|", " ", "|", " ", "|", " ", "\n"
  >>

\* no cow; the UFO two steps east of the bull, which is two steps from the west edge
Farm2Text ==
  <<
    " ", "|", " ", "|", " ", "|", " ", "\n",
    "-", "+", "B", "+", "-", "+", "-", "\n",
    " ", "C", "R", "H", "U", "F", " ", "\n",
    "-", "+", "-", "+", "-", "+", "-", "\n",
    " ", "|", " ", "|", " ", "|", " ", "\n",
    "-", "+", "-", "+", "-", "+", "-", "\n",
    " ", "|", " ", "|", "S", "|", " ", "\n"
  >>

\* no cow; the bull enclosed by four barns, the other barrier kinds elsewhere
Farm3Text ==
  <<
    " ", "|", " ", "|", " ", "|", " ", "\n",
    "-", "+", "B", "+", "-", "+", "-", "\n",
    " ", "B", "R", "B", "U", "|", " ", "\n",
    "-", "+", "B", "+", "-", "+", "-", "\n",
    " ", "C", " ", "F", " ", "H", " ", "\n",
    "-", "+", "-", "+", "-", "+", "-", "\n",
    " ", "|", " ", "|", "S", "|", " ", "\n"
  >>

\* two cows, no silo, UFO on an odd row and column, barriers on landing cells
Farm4Text ==
  <<
    "B", "B", "B", "B", "B", "B", "B", "\n",
    "B", "U", " ", "A", " ", "Y", "B", "\n",
    "B", " ", "C", " ", "F", " ", "B", "\n",
    "B", "H", " ", "R", " ", "H", "B", "\n",
    " ", "C", " ", "H", " ", "F", " ", "\n",
    " ", "F", " ", " ", " ", "+", " ", "\n",
    "B", "B", "B", " ", " ", " ", " ", "\n"
  >>

\* three cows; the bull away from the edge
Farm5Text ==
  <<
    "A", "|", "U", "|", "Y", "|", " ", "\n",
    "-", "+", "C", "+", "-", "+", "H", "\n",
    " ", "|", "R", "F", "O", "|", " ", "\n",
    "B", "+", "-", "+", "-", "+", "-", "\n",
    " ", "|", " ", "|", "S", "|", " ", "\n",
    "-", "+", "-", "+", "-", "+", "-", "\n",
    " ", "|", " ", "|", " ", "|", " ", "\n"
  >>

\* the four cows, the bull and the silo, another arrangement
Farm6Text ==
  <<
    " ", "|", "O", "|", " ", "|", "S", "\n",
    "H", "+", "-", "+", "C", "+", "-", "\n",
    "A", "|", "U", "|", "P", "|", " ", "\n",
    "-", "+", "F", "+", "-", "+", "B", "\n",
    " ", "|", " ", "|", "R", "|", "Y", "\n",
    "-", "+", "H", "+", "-", "+", "-", "\n",
    " ", "|", " ", "|", " ", "|", " ", "\n"
  >>

\* cows, the bull, the silo and a corner on cells the craft slides over
Farm7Text ==
  <<
    "U", "A", " ", "S", " ", "+", " ", "\n",
    "R", "+", " ", "+", "-", "+", " ", "\n",
    " ", "O", "Y", "|", " ", " ", "P", "\n",
    "B", "B", "B", "B", "B", "B", "B", "\n",
    "H", "H", "H", "H", "H", "H", "H", "\n",
    "C", "C", "C", "C", "C", "C", "C", "\n",
    "F", " ", " ", " ", " ", " ", " ", "\n"
  >>

FarmTexts ==
  <<Farm1Text, Farm2Text, Farm3Text, Farm4Text, Farm5Text, Farm7Text, Farm6Text>>

\* the number of texts of FarmTexts the model starts from
NumFarms == 6

Farms ==
  {from_str(FarmTexts[i]).farm :
     i \in {j \in 1..Len(FarmTexts) : j <= NumFarms /\ from_str(FarmTexts[j]).ok}}

(***************************************************************************)
(* The search driver (IotCS::next): self is the node being expanded, nb    *)
(* its clone after the call nb.move_ufo(self.ufo_pos, dir), ret the value  *)
(* the call returned.  A node pushed by next may be expanded in turn.      *)
(***************************************************************************)
VARIABLES farm, self, nb, dir, ret, input, parsed, heap, wk

vars == <<farm, self, nb, dir, ret, input, parsed, heap, wk>>

NoDir == "none"

\* the texts the farms of the model are parsed from
FarmInputs == {FarmTexts[i] : i \in {j \in 1..Len(FarmTexts) : j <= NumFarms}}

\* input is the text given to Farm::from_str and parsed the Result it
\* returned (None before the call)
Init ==
  /\ input \in FarmInputs
  /\ parsed = Some(from_str(input))
  /\ parsed.val.ok
  /\ farm = parsed.val.farm
  /\ farm \in Farms
  /\ self = IotCSNew(farm)
  /\ nb = IotCSNew(farm)
  /\ dir = NoDir
  /\ ret = None
  /\ heap = <<>>
  /\ wk = <<>>

\* the nodes the driver holds: the node under expansion and, when the last
\* move succeeded, the successor pushed for it
Nodes == {self} \cup (IF ret.some THEN {nb} ELSE {})

\* one iteration of "for dir in Direction::values()" on the node
MoveUfo(node, d) ==
  LET clone == node
      moved == move_ufo(farm, clone, node.ufo_pos, d)
  IN  /\ self' = node
      /\ nb' = moved.self
      /\ ret' = moved.ret
      /\ dir' = d
      /\ UNCHANGED <<farm, input, parsed, heap, wk>>

Next == \E node \in Nodes : \E d \in Direction : MoveUfo(node, d)

Spec == Init /\ [][Next]_vars

(***************************************************************************)
(* Parsing: the caller hands a text to Farm::from_str.  The texts are the  *)
(* farm texts with one character replaced, with the last character         *)
(* dropped, or with one character added at the end.                        *)
(***************************************************************************)
Chars ==
  {"U", "A", "Y", "P", "O", "R", "B", "C", "H", "F", "S", "|", "-", "+", " ",
   "\n", "x"}

ParseInputs ==
  UNION {{[t EXCEPT ![k] = ch] : k \in 1..Len(t), ch \in Chars}
           \cup {SubSeq(t, 1, Len(t) - 1)}
           \cup {Append(t, ch) : ch \in Chars} : t \in FarmInputs}

InitParse ==
  /\ input \in ParseInputs
  /\ parsed = None
  /\ farm = FarmNew
  /\ self = IotCSNew(FarmNew)
  /\ nb = IotCSNew(FarmNew)
  /\ dir = NoDir
  /\ ret = None
  /\ heap = <<>>
  /\ wk = <<>>

\* the call input.parse::<Farm>(); farm is the farm built, kept when Ok
FromStr ==
  /\ ~parsed.some
  /\ parsed' = Some(from_str(input))
  /\ farm' = IF from_str(input).ok THEN from_str(input).farm ELSE farm
  /\ UNCHANGED <<self, nb, dir, ret, input, heap, wk>>

NextParse == FromStr

SpecParse == InitParse /\ [][NextParse]_vars

(***************************************************************************)
(* Workers of a concurrent search over one farm.  heap maps the IotCS      *)
(* values alive to their fields; every worker calls next on the shared     *)
(* root node and then on one of the successors it obtained.  A step is the *)
(* clone of one loop iteration of next, or its move_ufo and push.          *)
(***************************************************************************)
NumWorkers == 2

Workers == 1..NumWorkers

RootRef == <<0, "root", 0>>

NoRef == <<0, "none", 0>>

\* #[derive(Clone)]: the clone is a value of its own, at the fresh place
CloneRef_Alias(ref, fresh) == ref

CloneRef(ref, fresh) == fresh

WorkerStart ==
  [pc   |-> "idle",
   call |-> "none",
   node |-> NoRef,
   arg  |-> None,
   i    |-> 0,
   nb   |-> NoRef,
   out  |-> <<>>,
   kids |-> <<>>]

\* a worker calls next, on the root or on a successor it holds
Begin(w) ==
  /\ wk[w].pc = "idle"
  /\ \E ref \in IF wk[w].call = "none" THEN {RootRef}
               ELSE {wk[w].kids[k][2] : k \in 1..Len(wk[w].kids)} :
       wk' = [wk EXCEPT ![w] =
                [@ EXCEPT !.pc = "clone",
                          !.call = IF @ = "none" THEN "root" ELSE "child",
                          !.node = ref,
                          !.arg = Some(heap[ref]),
                          !.i = 1,
                          !.out = <<>>]]
  /\ UNCHANGED <<farm, self, nb, dir, ret, input, parsed, heap>>

\* "let mut nb = self.clone();"
CloneStep(w) ==
  /\ wk[w].pc = "clone"
  /\ wk[w].i <= Len(DirectionValues)
  /\ LET ref == CloneRef(wk[w].node, <<w, wk[w].call, wk[w].i>>)
     IN  /\ heap' = IF ref \in DOMAIN heap THEN heap
                    ELSE [r \in DOMAIN heap \cup {ref} |->
                            IF r = ref THEN heap[wk[w].node] ELSE heap[r]]
         /\ wk' = [wk EXCEPT ![w] = [@ EXCEPT !.pc = "move", !.nb = ref]]
  /\ UNCHANGED <<farm, self, nb, dir, ret, input, parsed>>

\* "if nb.move_ufo(self.ufo_pos, dir).is_some() { next.push((dir, nb)); }";
\* a clone that is not pushed is dropped
MoveStep(w) ==
  /\ wk[w].pc = "move"
  /\ LET d     == DirectionValues[wk[w].i]
         moved == move_ufo(farm, heap[wk[w].nb], heap[wk[w].node].ufo_pos, d)
     IN  IF moved.ret.some
           THEN /\ heap' = [heap EXCEPT ![wk[w].nb] = moved.self]
                /\ wk' = [wk EXCEPT ![w] =
                            [@ EXCEPT !.pc = "clone",
                                      !.i = @ + 1,
                                      !.out = Append(@, <<d, wk[w].nb>>),
                                      !.nb = NoRef]]
           ELSE /\ heap' = [r \in DOMAIN heap \ {wk[w].nb} |-> heap[r]]
                /\ wk' = [wk EXCEPT ![w] =
                            [@ EXCEPT !.pc = "clone", !.i = @ + 1, !.nb = NoRef]]
  /\ UNCHANGED <<farm, self, nb, dir, ret, input, parsed>>

\* next returns the vector; the worker keeps the successors of the root
ReturnStep(w) ==
  /\ wk[w].pc = "clone"
  /\ wk[w].i > Len(DirectionValues)
  /\ wk' = [wk EXCEPT ![w] =
              IF @.call = "root" /\ @.out # <<>>
                THEN [@ EXCEPT !.pc = "idle", !.kids = wk[w].out]
                ELSE [@ EXCEPT !.pc = "done"]]
  /\ UNCHANGED <<farm, self, nb, dir, ret, input, parsed, heap>>

InitShared ==
  /\ input \in FarmInputs
  /\ parsed = Some(from_str(input))
  /\ parsed.val.ok
  /\ farm = parsed.val.farm
  /\ self = IotCSNew(farm)
  /\ nb = IotCSNew(farm)
  /\ dir = NoDir
  /\ ret = None
  /\ heap = [r \in {RootRef} |-> IotCSNew(farm)]
  /\ wk = [w \in Workers |-> WorkerStart]

NextWorkers ==
  \E w \in Workers : Begin(w) \/ CloneStep(w) \/ MoveStep(w) \/ ReturnStep(w)

SpecWorkers == InitShared /\ [][NextWorkers]_vars

(***************************************************************************)
(* Vocabulary of the properties.  The cells a move concerns are named here *)
(* from the geometry of the grid, not through step.                        *)
(***************************************************************************)
Called == dir # NoDir

Carried(s) == Len(s.cow_collection)

DRow(d) == CASE d = "North" -> -1 [] d = "South" -> 1 [] OTHER -> 0

DCol(d) == CASE d = "West" -> -1 [] d = "East" -> 1 [] OTHER -> 0

\* the object n cells from the craft of s in direction d, "OffBoard" if none
ObjAhead(s, d, n) ==
  LET r == s.ufo_pos.x + n * DRow(d)
      c == s.ufo_pos.y + n * DCol(d)
  IN  IF r \in 0..6 /\ c \in 0..6 THEN farm.layout[r][c].val ELSE "OffBoard"

OnBoundary(s) == s.ufo_pos.x \in {0, 6} \/ s.ufo_pos.y \in {0, 6}

HasPrize(s) == \E i \in 1..Len(s.cow_collection) : s.cow_collection[i] = "RedBull"

Cows == {"AzureCow", "YellowCow", "PurpleCow", "OrangeCow"}

\* strength of a barrier: the number of carried items it tolerates
Strength(obj) ==
  CASE obj = "Barn" -> 0 [] obj = "Crop" -> 1 [] obj = "Fence" -> 2 [] obj = "Hay" -> 3

Barriers == {"Barn", "Crop", "Fence", "Hay"}

\* the final cell of the move dir from self forbids the move
LandingRefused ==
  \/ ObjAhead(self, dir, 2) \in {"OffBoard", "Silo"}
  \/ /\ ObjAhead(self, dir, 2) = "RedBull"
     /\ ~HasPrize(self)
     /\ Carried(self) # farm.cow_count

IsPrefix(p, q) == Len(p) <= Len(q) /\ \A i \in 1..Len(p) : p[i] = q[i]

(***************************************************************************)
(* C1. A state is a goal if and only if the collected sequence has length  *)
(* cow count + 1 and the craft is on row 0 or 6 or on column 0 or 6.       *)
(***************************************************************************)
Thm_C1_GoalIff ==
  \A s \in {self, nb} :
    is_goal(farm, s) <=> (Carried(s) = farm.cow_count + 1 /\ OnBoundary(s))

Wit_C1_GoalReached ==
  /\ ret.some
  /\ ~is_goal(farm, self)
  /\ is_goal(farm, nb)
  /\ farm.cow_count = 4

(***************************************************************************)
(* C2. Prize ordering: a move that newly appends the Prize starts from a   *)
(* state whose collected count equals the cow count; a move landing on the *)
(* Prize, not yet collected, with another count returns no result.         *)
(***************************************************************************)
Thm_C2_PrizeOrdering ==
  Called =>
    /\ (HasPrize(nb) /\ ~HasPrize(self)) => Carried(self) = farm.cow_count
    /\ (/\ ObjAhead(self, dir, 2) = "RedBull"
        /\ ~HasPrize(self)
        /\ Carried(self) # farm.cow_count) => ~ret.some

Wit_C2_PrizeAfterCows ==
  /\ ret.some
  /\ HasPrize(nb)
  /\ ~HasPrize(self)
  /\ farm.cow_count >= 2

(***************************************************************************)
(* C3. Graduated barrier strength: with a barrier of strength k on the     *)
(* intermediate cell, the move returns no result when more than k items    *)
(* are carried, and with at most k items the result depends on the final   *)
(* cell alone.                                                             *)
(***************************************************************************)
Thm_C3_BarrierStrength ==
  (Called /\ ObjAhead(self, dir, 1) \in Barriers) =>
    LET k == Strength(ObjAhead(self, dir, 1))
    IN  /\ Carried(self) > k => ~ret.some
        /\ Carried(self) <= k => (ret.some <=> ~LandingRefused)

Wit_C3_WeakStopsOneItem ==
  /\ Called
  /\ ObjAhead(self, dir, 1) = "Barn"
  /\ Carried(self) = 1
  /\ ~LandingRefused
  /\ ~ret.some

(***************************************************************************)
(* C4, as claimed: a state that is not a goal carries at most 3 items, and *)
(* a strongest barrier (Hay) on the intermediate cell never makes a move   *)
(* from such a state illegal.                                              *)
(***************************************************************************)
Orig_C4_CapThree ==
  /\ \A s \in {self, nb} : ~is_goal(farm, s) => Carried(s) <= 3
  /\ (Called /\ ~is_goal(farm, self) /\ ObjAhead(self, dir, 1) = "Hay")
       => (ret.some <=> ~LandingRefused)

(***************************************************************************)
(* C4, amended: every reachable state carries at most cow count + 1 items, *)
(* at most 5; a strongest barrier (Hay) on the intermediate cell makes the *)
(* move illegal exactly when more than 3 items are carried.                *)
(***************************************************************************)
Thm_C4_CapFive ==
  /\ \A s \in {self, nb} : Carried(s) <= farm.cow_count + 1 /\ Carried(s) <= 5
  /\ (Called /\ ObjAhead(self, dir, 1) = "Hay") =>
       /\ Carried(self) > 3 => ~ret.some
       /\ Carried(self) <= 3 => (ret.some <=> ~LandingRefused)

Wit_C4_HayStopsFourCows ==
  /\ Called
  /\ ObjAhead(self, dir, 1) = "Hay"
  /\ Carried(self) = 4
  /\ ~HasPrize(self)
  /\ ~is_goal(farm, self)
  /\ ~LandingRefused
  /\ ~ret.some

(***************************************************************************)
(* C5. Forbidden landing: a move whose final cell is the silo returns no   *)
(* result, and the craft of a reachable state is never on the silo.        *)
(***************************************************************************)
Thm_C5_NoSiloLanding ==
  /\ (Called /\ ObjAhead(self, dir, 2) = "Silo") => ~ret.some
  /\ \A s \in {self, nb} : ObjAhead(s, "North", 0) # "Silo"

Wit_C5_SiloRefused ==
  /\ Called
  /\ ObjAhead(self, dir, 2) = "Silo"
  /\ ObjAhead(self, dir, 1) \notin Barriers
  /\ Carried(self) >= 1
  /\ ~ret.some

(***************************************************************************)
(* C6.  The scenario: a farm without cows, the craft one move (two cells   *)
(* in a straight line) from the Prize, the Prize off the boundary and one  *)
(* move from it.                                                           *)
(***************************************************************************)
Start == IotCSNew(farm)

PrizeCells ==
  {<<r, c>> \in (0..6) \X (0..6) : farm.layout[r][c].val = "RedBull"}

C6Scenario ==
  /\ farm.cow_count = 0
  /\ \E d \in Direction : ObjAhead(Start, d, 2) = "RedBull"
  /\ \A p \in PrizeCells :
       /\ p[1] \in 1..5 /\ p[2] \in 1..5
       /\ p[1] \in {2, 4} \/ p[2] \in {2, 4}

\* the states that some sequence of successful moves reaches from the start
RECURSIVE ReachFrom(_, _)
ReachFrom(seen, frontier) ==
  IF frontier = {} THEN seen
  ELSE LET succ == UNION {{next(farm, s)[i][2] : i \in 1..Len(next(farm, s))} :
                            s \in frontier}
       IN  ReachFrom(seen \cup succ, succ \ seen)

Reachable == ReachFrom({Start}, {Start})

(***************************************************************************)
(* C6, as claimed: on every farm of the scenario some sequence of legal    *)
(* moves collects the Prize and ends in a goal state with collected        *)
(* length 1.                                                               *)
(***************************************************************************)
Orig_C6_ExitExists ==
  C6Scenario =>
    \E s \in Reachable : HasPrize(s) /\ is_goal(farm, s) /\ Carried(s) = 1

\* the craft of s is on the Prize, and the way out in direction d is open:
\* no weak barrier on the cell between, a boundary cell other than the silo
\* two cells away
ExitOpen(s, d) ==
  /\ ObjAhead(s, "North", 0) = "RedBull"
  /\ ObjAhead(s, d, 1) # "Barn"
  /\ ObjAhead(s, d, 2) \notin {"OffBoard", "Silo"}
  /\ \/ s.ufo_pos.x + 2 * DRow(d) \in {0, 6}
     \/ s.ufo_pos.y + 2 * DCol(d) \in {0, 6}

(***************************************************************************)
(* C6, amended: on a farm of the scenario the move from the start onto the *)
(* Prize succeeds and collects it; and when the cell between the Prize and *)
(* a boundary cell two cells away is no weak barrier and that boundary     *)
(* cell is not the silo, the move towards it from the Prize succeeds and   *)
(* ends in a goal state whose collected sequence has length 1.             *)
(***************************************************************************)
Thm_C6_PrizeThenExit ==
  (C6Scenario /\ Called) =>
    /\ (self = Start /\ ObjAhead(self, dir, 2) = "RedBull") =>
         /\ ret.some
         /\ nb.cow_collection = <<"RedBull">>
         /\ ObjAhead(nb, "North", 0) = "RedBull"
    /\ (self.cow_collection = <<"RedBull">> /\ ExitOpen(self, dir)) =>
         /\ ret.some
         /\ is_goal(farm, nb)
         /\ Carried(nb) = 1

Wit_C6_ExitedWithPrize ==
  /\ C6Scenario
  /\ Called
  /\ self.cow_collection = <<"RedBull">>
  /\ ExitOpen(self, dir)
  /\ ret.some
  /\ is_goal(farm, nb)

(***************************************************************************)
(* C7. Append-only collection: across a move the collected sequence before *)
(* it is a prefix of the one after it, longer by at most one item.         *)
(***************************************************************************)
Thm_C7_AppendOnly ==
  Called =>
    /\ IsPrefix(self.cow_collection, nb.cow_collection)
    /\ Carried(nb) \in {Carried(self), Carried(self) + 1}

Wit_C7_AppendedAfterOthers ==
  /\ ret.some
  /\ Carried(self) >= 2
  /\ Carried(nb) = Carried(self) + 1

(***************************************************************************)
(* C8. Idempotence of pickup: a successful move onto the cell of a cow     *)
(* already collected, or of the Prize already collected, changes the craft *)
(* position only.                                                          *)
(***************************************************************************)
AlreadyCollectedAhead ==
  \/ /\ ObjAhead(self, dir, 2) \in Cows
     /\ \E i \in 1..Carried(self) : self.cow_collection[i] = ObjAhead(self, dir, 2)
  \/ /\ ObjAhead(self, dir, 2) = "RedBull"
     /\ HasPrize(self)

Thm_C8_PickupIdempotent ==
  (Called /\ ret.some /\ AlreadyCollectedAhead) =>
    /\ nb.cow_collection = self.cow_collection
    /\ nb.red_bull_picked = self.red_bull_picked
    /\ nb.ufo_pos # self.ufo_pos

Wit_C8_BackOnPrize ==
  /\ Called
  /\ ret.some
  /\ ObjAhead(self, dir, 2) = "RedBull"
  /\ HasPrize(self)
  /\ nb.ufo_pos = ret.val

(***************************************************************************)
(* C9. The collected sequence of a reachable state has no duplicates.      *)
(***************************************************************************)
Thm_C9_NoDuplicates ==
  \A s \in {self, nb} :
    \A i, j \in 1..Carried(s) : i # j => s.cow_collection[i] # s.cow_collection[j]

Wit_C9_BackOnCow ==
  /\ Called
  /\ ret.some
  /\ ObjAhead(self, dir, 2) \in Cows
  /\ \E i \in 1..Carried(self) : self.cow_collection[i] = ObjAhead(self, dir, 2)
  /\ Carried(nb) >= 2

(***************************************************************************)
(* C10. Validate-then-commit: when the move returns no result, position,   *)
(* collected sequence and prize flag are what they were before the call.   *)
(***************************************************************************)
Thm_C10_FailureLeavesState ==
  (Called /\ ~ret.some) =>
    /\ nb.ufo_pos = self.ufo_pos
    /\ nb.cow_collection = self.cow_collection
    /\ nb.red_bull_picked = self.red_bull_picked

Wit_C10_PrematurePrize ==
  /\ Called
  /\ ~ret.some
  /\ ObjAhead(self, dir, 1) \notin Barriers
  /\ ObjAhead(self, dir, 2) = "RedBull"
  /\ Carried(self) >= 1

(***************************************************************************)
(* C11.  The successors as the rules of the move give them: a direction is *)
(* legal when the barrier on the first cell bears the load and the second  *)
(* cell accepts the craft; the successor is the state two cells further,   *)
(* with the item of that cell appended when it is new.                     *)
(***************************************************************************)
Legal(s, d) ==
  LET mid == ObjAhead(s, d, 1)
      fin == ObjAhead(s, d, 2)
  IN  /\ mid # "OffBoard"
      /\ mid \in Barriers => Carried(s) <= Strength(mid)
      /\ fin \notin {"OffBoard", "Silo"}
      /\ (fin = "RedBull" /\ ~HasPrize(s)) => Carried(s) = farm.cow_count

After(s, d) ==
  LET fin  == ObjAhead(s, d, 2)
      held == \E i \in 1..Carried(s) : s.cow_collection[i] = fin
  IN  [ufo_pos         |-> [x   |-> s.ufo_pos.x + 2 * DRow(d),
                            y   |-> s.ufo_pos.y + 2 * DCol(d),
                            bad |-> FALSE],
       cow_collection  |-> IF fin \in Cows \cup {"RedBull"} /\ ~held
                             THEN Append(s.cow_collection, fin)
                             ELSE s.cow_collection,
       red_bull_picked |-> (s.red_bull_picked \/ fin = "RedBull")]

PairIf(s, d) == IF Legal(s, d) THEN <<(<<d, After(s, d)>>)>> ELSE <<>>

Successors(s) ==
  PairIf(s, "North") \o PairIf(s, "South") \o PairIf(s, "West") \o PairIf(s, "East")

(***************************************************************************)
(* C11. Successor generation returns, in the order North, South, West,     *)
(* East, one pair (direction, state) for each direction whose move from    *)
(* the current state succeeds and none for the others, every state being   *)
(* the move applied to a copy of the current state; the pair of the last   *)
(* move made is among them exactly when the move succeeded.                *)
(***************************************************************************)
Thm_C11_Successors ==
  /\ \A s \in {self, nb} : next(farm, s) = Successors(s)
  /\ Called =>
       (ret.some <=> \E i \in 1..Len(next(farm, self)) :
                        next(farm, self)[i] = <<dir, nb>>)

Wit_C11_SomeDirectionsOnly ==
  /\ Called
  /\ ret.some
  /\ Carried(self) >= 1
  /\ Len(next(farm, self)) = 3
  /\ next(farm, self)[3][1] = "East"

(***************************************************************************)
(* C12. For every Position p of the grid and every Direction d, step(p, d) *)
(* returns no value exactly when p is on the edge d points off; otherwise  *)
(* it returns a Position one unit from p along exactly one axis, inside    *)
(* the grid.  No Position built by stepping or held by a reachable state   *)
(* is out of range (the panic of Pos::new is not reached).                 *)
(***************************************************************************)
OffEdge(p, d) ==
  \/ d = "North" /\ p.x = 0
  \/ d = "South" /\ p.x = 6
  \/ d = "West" /\ p.y = 0
  \/ d = "East" /\ p.y = 6

Dist(a, b) == IF a >= b THEN a - b ELSE b - a

Thm_C12_StepInBounds ==
  /\ \A p \in Pos : \A d \in Direction :
       /\ step(p, d).some <=> ~OffEdge(p, d)
       /\ step(p, d).some =>
            LET q == step(p, d).val
            IN  /\ Dist(q.x, p.x) + Dist(q.y, p.y) = 1
                /\ q.x \in 0..6 /\ q.y \in 0..6
                /\ ~q.bad
  /\ \A s \in {self, nb} : s.ufo_pos \in Pos /\ ~s.ufo_pos.bad
  /\ ret.some => ret.val \in Pos

Wit_C12_SecondStepOffBoard ==
  /\ Called
  /\ step(self.ufo_pos, dir).some
  /\ ~step(step(self.ufo_pos, dir).val, dir).some
  /\ ~ret.some

(***************************************************************************)
(* C16. Independence of search nodes: in every interleaving of the         *)
(* workers' steps the board stays the parsed board; the shared root and    *)
(* every node being expanded keep the position, collected sequence and     *)
(* prize flag they had when next was called; the successors a worker holds *)
(* are never changed by another move; and what a worker has pushed so far, *)
(* and in the end obtains, is what the sequential next yields.             *)
(***************************************************************************)
Held(refs) == \A k \in 1..Len(refs) : refs[k][2] \in DOMAIN heap

Values(refs) == [k \in 1..Len(refs) |-> <<refs[k][1], heap[refs[k][2]]>>]

DirIndex(d) == CHOOSE i \in 1..Len(DirectionValues) : DirectionValues[i] = d

\* the successors of s in a sequential run, for the directions before the i-th
SequentialUpTo(s, i) ==
  LET Before(p) == DirIndex(p[1]) < i
  IN  SelectSeq(next(farm, s), Before)

Thm_C16_Independence ==
  /\ farm = parsed.val.farm
  /\ RootRef \in DOMAIN heap
  /\ heap[RootRef] = Start
  /\ \A w \in Workers :
       wk[w].arg.some =>
         /\ wk[w].node \in DOMAIN heap
         /\ heap[wk[w].node] = wk[w].arg.val
         /\ Held(wk[w].out)
         /\ Values(wk[w].out) = SequentialUpTo(wk[w].arg.val, wk[w].i)
         /\ Held(wk[w].kids)
         /\ wk[w].kids # <<>> => Values(wk[w].kids) = next(farm, Start)

Wit_C16_Interleaved ==
  \E w1 \in Workers : \E w2 \in Workers \ {w1} :
    /\ wk[w1].call = "child"
    /\ wk[w1].pc = "done"
    /\ wk[w1].out # <<>>
    /\ wk[w2].call = "root"
    /\ wk[w2].pc = "move"
    /\ wk[w2].out # <<>>

(***************************************************************************)
(* C17. Sliding over the intermediate cell: when the first cell holds an   *)
(* object that is no barrier, the move is legal exactly when the final     *)
(* cell accepts the craft, and the collected sequence and the prize flag   *)
(* change by the object of the final cell only.                            *)
(***************************************************************************)
Thm_C17_SlideOver ==
  (Called /\ ObjAhead(self, dir, 1) \notin Barriers \cup {"OffBoard"}) =>
    LET fin   == ObjAhead(self, dir, 2)
        held  == \E i \in 1..Carried(self) : self.cow_collection[i] = fin
        taken == ret.some /\ fin \in Cows \cup {"RedBull"} /\ ~held
    IN  /\ ret.some <=> ~LandingRefused
        /\ nb.cow_collection =
             IF taken THEN Append(self.cow_collection, fin) ELSE self.cow_collection
        /\ nb.red_bull_picked = (self.red_bull_picked \/ (taken /\ fin = "RedBull"))

Wit_C17_OverACow ==
  /\ Called
  /\ ObjAhead(self, dir, 1) \in Cows
  /\ ret.some
  /\ \A i \in 1..Carried(nb) : nb.cow_collection[i] # ObjAhead(self, dir, 1)

(***************************************************************************)
(* C19. A successful move displaces the craft by exactly two cells along   *)
(* the axis of the move and not at all along the other; the row and the    *)
(* column of the craft of a reachable state have the parity of the start   *)
(* row and column.                                                         *)
(***************************************************************************)
Thm_C19_TwoCellsParity ==
  /\ (Called /\ ret.some) =>
       /\ nb.ufo_pos.x = self.ufo_pos.x + 2 * DRow(dir)
       /\ nb.ufo_pos.y = self.ufo_pos.y + 2 * DCol(dir)
       /\ ret.val = nb.ufo_pos
  /\ \A s \in {self, nb} :
       /\ s.ufo_pos.x % 2 = farm.ufo_pos.x % 2
       /\ s.ufo_pos.y % 2 = farm.ufo_pos.y % 2

Wit_C19_AwayFromStart ==
  /\ Called
  /\ ret.some
  /\ Dist(nb.ufo_pos.x, farm.ufo_pos.x) = 4
  /\ Dist(nb.ufo_pos.y, farm.ufo_pos.y) = 2
  /\ farm.ufo_pos.x % 2 = 1

(***************************************************************************)
(* C20. In every reachable state the collected length is at most cow count *)
(* + 1, and these are equivalent: the prize flag is set; the Prize is in   *)
(* the collected sequence, as its last element; the collected length is    *)
(* cow count + 1.  From such a state no move changes the collected         *)
(* sequence.                                                               *)
(***************************************************************************)
PrizeLast(s) ==
  /\ Carried(s) >= 1
  /\ s.cow_collection[Carried(s)] = "RedBull"
  /\ \A i \in 1..(Carried(s) - 1) : s.cow_collection[i] # "RedBull"

Thm_C20_PrizeCompletes ==
  /\ \A s \in {self, nb} :
       /\ Carried(s) <= farm.cow_count + 1
       /\ s.red_bull_picked <=> HasPrize(s)
       /\ HasPrize(s) <=> PrizeLast(s)
       /\ HasPrize(s) <=> Carried(s) = farm.cow_count + 1
  /\ (Called /\ self.red_bull_picked) => nb.cow_collection = self.cow_collection

Wit_C20_MovedOnWithPrize ==
  /\ Called
  /\ ret.some
  /\ self.red_bull_picked
  /\ Carried(self) = 5
  /\ ObjAhead(self, dir, 2) \in Cows

(***************************************************************************)
(* Vocabulary of the properties of parsing: counts on the farm built and   *)
(* on the text read.                                                       *)
(***************************************************************************)
Accepted == parsed.some /\ parsed.val.ok

Rejected == parsed.some /\ ~parsed.val.ok

\* the number of cells of the farm that hold an object of objs
CellCount(objs) ==
  Cardinality({rc \in (0..6) \X (0..6) :
                 /\ farm.layout[rc[1]][rc[2]].some
                 /\ farm.layout[rc[1]][rc[2]].val \in objs})

\* the number of characters of the text that are in chs
CharCount(chs) == Cardinality({k \in 1..Len(input) : input[k] \in chs})

CellGlyphs ==
  {"U", "A", "Y", "P", "O", "R", "B", "C", "H", "F", "S", "|", "-", "+", " "}

\* seven rows of seven cell glyphs, each ended by a newline
GridShaped ==
  /\ Len(input) = 56
  /\ \A k \in 1..Len(input) :
       IF k % 8 = 0 THEN input[k] = "\n" ELSE input[k] \in CellGlyphs

\* one craft, one Prize, no cow colour and no silo twice
SingletonsRight ==
  /\ CharCount({"U"}) = 1
  /\ CharCount({"R"}) = 1
  /\ \A ch \in {"A", "Y", "P", "O", "S"} : CharCount({ch}) <= 1

(***************************************************************************)
(* C13, as claimed: an accepted board contains exactly one Craft, one      *)
(* Prize, one silo and one cow of each of the four colours.                *)
(***************************************************************************)
Orig_C13_AllSingletons ==
  Accepted =>
    \A obj \in {"UFO", "RedBull", "Silo"} \cup Cows : CellCount({obj}) = 1

(***************************************************************************)
(* C13, amended: an accepted board contains exactly one Craft and exactly  *)
(* one Prize, at most one silo and at most one cow of each colour.         *)
(***************************************************************************)
Thm_C13_Singletons ==
  Accepted =>
    /\ CellCount({"UFO"}) = 1
    /\ CellCount({"RedBull"}) = 1
    /\ \A obj \in {"Silo"} \cup Cows : CellCount({obj}) <= 1

Wit_C13_NoSiloTwoCows ==
  /\ Accepted
  /\ CellCount({"Silo"}) = 0
  /\ CellCount(Cows) = 2

(***************************************************************************)
(* C14, as claimed: an accepted board contains exactly 24 cells of the     *)
(* four barrier strengths, and a grid with another number of them is       *)
(* rejected.                                                               *)
(***************************************************************************)
Orig_C14_BarriersOnly ==
  /\ Accepted => CellCount(Barriers) = 24
  /\ (parsed.some /\ GridShaped /\ CharCount({"B", "C", "H", "F"}) # 24) => Rejected

(***************************************************************************)
(* C14, amended: an accepted board contains exactly 24 wall cells, the     *)
(* cells of the four barrier strengths and of the two wall-edge glyphs     *)
(* ("|", "-") counted together and the corner glyph not counted; a text is *)
(* accepted exactly when it is a grid with the singletons right and 24     *)
(* such cells.                                                             *)
(***************************************************************************)
Thm_C14_WallCells ==
  /\ Accepted => CellCount(Barriers \cup {"Wall1", "Wall2"}) = 24
  /\ parsed.some =>
       (parsed.val.ok <=>
          /\ GridShaped
          /\ SingletonsRight
          /\ CharCount({"B", "C", "H", "F", "|", "-"}) = 24)

Wit_C14_OneWallShort ==
  /\ Rejected
  /\ GridShaped
  /\ SingletonsRight
  /\ CharCount({"B", "C", "H", "F", "|", "-"}) = 23

(***************************************************************************)
(* C15. The cow count recorded on an accepted board is the number of its   *)
(* cells that hold a cow colour; the Prize is not counted.                 *)
(***************************************************************************)
Thm_C15_CowCount ==
  Accepted => farm.cow_count = CellCount(Cows)

Wit_C15_ThreeCows ==
  /\ Accepted
  /\ farm.cow_count = 3
  /\ CellCount({"RedBull"}) = 1

(***************************************************************************)
(* C18. Pos::values yields each of the 49 Positions exactly once, in the   *)
(* order in which parsing walks the cells: all cells of row 0 first, then  *)
(* row 1, ..., the row being the coordinate x that North and South change. *)
(* So the k-th Position names the cell parsed from the k-th cell glyph of  *)
(* the text.                                                               *)
(***************************************************************************)
\* the character of the text that the k-th cell is parsed from
CellChar(k) == input[k + (k - 1) \div 7]

Claim_C18_ValuesFollowParsing ==
  /\ Len(PosValues) = 49
  /\ \A p \in Pos : Cardinality({k \in 1..Len(PosValues) : PosValues[k] = p}) = 1
  /\ \A k \in 1..Len(PosValues) :
       PosValues[k].x = (k - 1) \div 7 /\ PosValues[k].y = (k - 1) % 7
  /\ Accepted =>
       \A k \in 1..Len(PosValues) :
         ObjectGlyph(get(farm, PosValues[k]).val) = CellChar(k)

====
